---- MODULE Spec2Model ----
(***************************************************************************)
(* Model of the nfl-event-parser pipeline (main.py, nfl/core.py,           *)
(* nfl/helpers/*.py): command line validation, the two endpoint fetchers,  *)
(* the join/transform engine and the output writer.                        *)
(*                                                                         *)
(* Representation.                                                         *)
(*  - A Python dict is a sequence of <<key, value>> pairs with unique      *)
(*    keys, in insertion order (dicts keep insertion order).               *)
(*  - A Python str that the code parses (dates, the delta) is a sequence   *)
(*    of tokens; every other field value is a one-token sequence, so that  *)
(*    all dict values have one shape.  Tokens never contain "-", " " or    *)
(*    ":" except the tokens that are exactly those separators.             *)
(***************************************************************************)
EXTENDS Integers, Sequences, FiniteSets, TLC

VARIABLES
    argv,               \* sys.argv handed to main (argc is Len(argv))
    pc,                 \* position of main: start, checked, sb_done, pulled,
                        \*   transformed, done, failed
    err,                \* the exception that ended main ("none" while running)
    http,               \* the GET requests issued so far, in order
    audit_log,          \* names written by the Logger decorator, in order
    SCOREBOARD_fields,  \* SCOREBOARD["fields_of_interest"] of config.json
    RANKINGS_fields,    \* RANKINGS["fields_of_interest"] of config.json
    sb_response,        \* what requests.get gave _pull_scoreboard_data
    rk_response,        \* what requests.get gave _pull_team_rankings
    sb_result,          \* outcome of the call of _pull_scoreboard_data
    rk_result,          \* outcome of the call of _pull_team_rankings
    scoreboard_data,    \* the list of event dicts (mutated in place by transform)
    team_ranking_data,  \* the list of ranking dicts
    tf_result,          \* outcome of the call of transform_json_data
    outfile             \* the output file: NoFile, or the records dumped into it

vars == <<argv, pc, err, http, audit_log, SCOREBOARD_fields, RANKINGS_fields,
          sb_response, rk_response, sb_result, rk_result, scoreboard_data,
          team_ranking_data, tf_result, outfile>>

-----------------------------------------------------------------------------
(* Bounds of the model.                                                    *)

MaxEvents == 2        \* events handed to transform_json_data
MaxRankings == 2      \* ranking records handed to transform_json_data
MaxBuckets == 2       \* date buckets of a scoreboard payload (fetcher runs)
MaxGames == 2         \* games of one date bucket
MainMaxBuckets == 1   \* date buckets of a scoreboard payload (pipeline runs)
MaxDateLen == 5       \* tokens of the start date argument
MaxDeltaLen == 2      \* tokens of the delta argument
MaxJoinEvents == 3    \* events of the lists that let a rank variable go stale

-----------------------------------------------------------------------------
(* Python dicts and lists.                                                 *)

Range(s) == {s[i] : i \in 1..Len(s)}

Str(tok) == <<tok>>

DictKeys(d) == [i \in 1..Len(d) |-> d[i][1]]

HasKey(d, k) == \E i \in 1..Len(d) : d[i][1] = k

GetItem(d, k) == d[CHOOSE i \in 1..Len(d) : d[i][1] = k][2]

\* d[k] = v: an existing key keeps its position, a new key goes last.
SetItem(d, k, v) ==
    IF HasKey(d, k)
    THEN [i \in 1..Len(d) |-> IF d[i][1] = k THEN <<k, v>> ELSE d[i]]
    ELSE Append(d, <<k, v>>)

\* Outcome of a call: it returned value, or raised exc (status: the HTTP
\* status an HTTPError carries, 0 otherwise).
Returned(v) == [kind |-> "return", exc |-> "none", status |-> 0, value |-> v]
Raised(e) == [kind |-> "raise", exc |-> e, status |-> 0, value |-> <<>>]
RaisedStatus(e, s) == [kind |-> "raise", exc |-> e, status |-> s, value |-> <<>>]
NotCalled == [kind |-> "not_called", exc |-> "none", status |-> 0, value |-> <<>>]

-----------------------------------------------------------------------------
(* nfl/helpers/dictionaries.py                                             *)

\* Mutant of filter_dictionary: nothing is removed.
filter_dictionary_keeps_all(dictionary, keys_to_keep) == dictionary

filter_dictionary(dictionary, keys_to_keep) ==
    SelectSeq(dictionary, LAMBDA kv : kv[1] \in Range(keys_to_keep))

-----------------------------------------------------------------------------
(* nfl/helpers/dates.py.  Token classes of the strptime directives: a      *)
(* token of a class is a string that directive accepts and that strftime   *)
(* renders unchanged (zero padded).                                        *)

YearTokens == {"2020"}
MonthTokens == {"12"}
DayTokens == {"12", "25"}
HourTokens == {"18"}
MinuteTokens == {"30"}

\* datetime.strptime(s, "%Y-%m-%d") succeeds.
MatchesDateFormat(s) ==
    /\ Len(s) = 5
    /\ s[1] \in YearTokens /\ s[2] = "-" /\ s[3] \in MonthTokens
    /\ s[4] = "-" /\ s[5] \in DayTokens

\* datetime.strptime(s, "%Y-%m-%d %H:%M") succeeds.
MatchesDatetimeFormat(s) ==
    /\ Len(s) = 9
    /\ MatchesDateFormat(SubSeq(s, 1, 5))
    /\ s[6] = " " /\ s[7] \in HourTokens /\ s[8] = ":" /\ s[9] \in MinuteTokens

\* split_datetime: (strftime("%d-%m-%Y"), strftime("%H:%M")), or ValueError.
split_datetime(date_time) ==
    IF MatchesDatetimeFormat(date_time)
    THEN Returned(<< <<date_time[5], "-", date_time[3], "-", date_time[1]>>,
                     <<date_time[7], ":", date_time[9]>> >>)
    ELSE Raised("ValueError")

\* add_date_and_time: the loop over response_data from index i on; the dicts
\* are updated in place, so the list as mutated so far is returned with the
\* outcome.
RECURSIVE add_date_and_time_from(_, _)
add_date_and_time_from(response_data, i) ==
    IF i > Len(response_data)
    THEN [out |-> Returned(response_data), data |-> response_data]
    ELSE LET response == response_data[i] IN
         IF ~HasKey(response, "event_date")
         THEN [out |-> Raised("KeyError"), data |-> response_data]
         ELSE LET split == split_datetime(GetItem(response, "event_date")) IN
              IF split.kind = "raise"
              THEN [out |-> split, data |-> response_data]
              ELSE add_date_and_time_from(
                       [response_data EXCEPT ![i] =
                           SetItem(SetItem(response, "event_date", split.value[1]),
                                   "event_time", split.value[2])],
                       i + 1)

add_date_and_time(response_data) == add_date_and_time_from(response_data, 1)

-----------------------------------------------------------------------------
(* nfl/core.py: transform_json_data.                                       *)

desired_key_order ==
    <<"event_id", "event_date", "event_time", "away_team_id", "away_nick_name",
      "away_city", "away_rank", "away_rank_points", "home_team_id",
      "home_nick_name", "home_city", "home_rank", "home_rank_points">>

\* Mutant of UnboundLocals: the four locals start out bound to None, as if the
\* function initialised them before the loop.
LocalsBoundToNone ==
    [away_bound |-> TRUE, away_team_rank |-> <<>>, away_team_points |-> <<>>,
     home_bound |-> TRUE, home_team_rank |-> <<>>, home_team_points |-> <<>>]

\* The function's local variables away_team_rank, away_team_points,
\* home_team_rank, home_team_points.  They are bound by the first matching
\* ranking record and are never unbound again: they live across iterations of
\* the loop over events.
UnboundLocals ==
    [away_bound |-> FALSE, away_team_rank |-> <<>>, away_team_points |-> <<>>,
     home_bound |-> FALSE, home_team_rank |-> <<>>, home_team_points |-> <<>>]

\* Lines 239-243: the scan of team_rankings from index j on.
RECURSIVE scan_team_rankings(_, _, _, _, _)
scan_team_rankings(team_rankings, j, away_team_id, home_team_id, locals) ==
    IF j > Len(team_rankings)
    THEN [exc |-> "none", locals |-> locals]
    ELSE LET team == team_rankings[j]
             has_values == HasKey(team, "rank") /\ HasKey(team, "adjusted_points")
         IN
         IF ~HasKey(team, "team_id")
         THEN [exc |-> "KeyError", locals |-> locals]
         ELSE IF away_team_id = GetItem(team, "team_id")
         THEN IF ~has_values
              THEN [exc |-> "KeyError", locals |-> locals]
              ELSE scan_team_rankings(team_rankings, j + 1, away_team_id, home_team_id,
                       [locals EXCEPT !.away_bound = TRUE,
                                      !.away_team_rank = GetItem(team, "rank"),
                                      !.away_team_points = GetItem(team, "adjusted_points")])
         ELSE IF home_team_id = GetItem(team, "team_id")
         THEN IF ~has_values
              THEN [exc |-> "KeyError", locals |-> locals]
              ELSE scan_team_rankings(team_rankings, j + 1, away_team_id, home_team_id,
                       [locals EXCEPT !.home_bound = TRUE,
                                      !.home_team_rank = GetItem(team, "rank"),
                                      !.home_team_points = GetItem(team, "adjusted_points")])
         ELSE scan_team_rankings(team_rankings, j + 1, away_team_id, home_team_id, locals)

\* Mutant of ordered_output: the event is emitted as it is, keys not reordered
\* and not restricted to the desired ones.
ordered_output_as_is(event) == event

\* Mutant of collect: the record is put in front of the list.
collect_in_front(transformed_result_list, record) == <<record>> \o transformed_result_list

\* Line 250: {key: event[key] for key in desired_key_order}.
HasAllKeys(event, keys) == \A n \in 1..Len(keys) : HasKey(event, keys[n])

ordered_output(event) ==
    [n \in 1..Len(desired_key_order) |->
        <<desired_key_order[n], GetItem(event, desired_key_order[n])>>]

\* transformed_result_list.append(ordered_output)
collect(transformed_result_list, record) == Append(transformed_result_list, record)

\* Lines 237-251: the loop over scoreboard_data from index i on.  data is the
\* list as mutated in place so far, acc is transformed_result_list.
RECURSIVE join_events(_, _, _, _, _)
join_events(data, team_rankings, i, locals, acc) ==
    IF i > Len(data)
    THEN [out |-> Returned(acc), data |-> data]
    ELSE LET event == data[i] IN
         IF ~(HasKey(event, "away_team_id") /\ HasKey(event, "home_team_id"))
         THEN [out |-> Raised("KeyError"), data |-> data]
         ELSE LET scan == scan_team_rankings(team_rankings, 1,
                              GetItem(event, "away_team_id"),
                              GetItem(event, "home_team_id"), locals)
                  l == scan.locals
              IN
              IF scan.exc # "none"
              THEN [out |-> Raised(scan.exc), data |-> data]
              ELSE IF ~l.away_bound
              THEN [out |-> Raised("UnboundLocalError"), data |-> data]
              ELSE LET ev1 == SetItem(SetItem(event, "away_rank", l.away_team_rank),
                                      "away_rank_points", l.away_team_points)
                   IN
                   IF ~l.home_bound
                   THEN [out |-> Raised("UnboundLocalError"),
                         data |-> [data EXCEPT ![i] = ev1]]
                   ELSE LET ev2 == SetItem(SetItem(ev1, "home_rank", l.home_team_rank),
                                           "home_rank_points", l.home_team_points)
                            data2 == [data EXCEPT ![i] = ev2]
                        IN
                        IF ~HasAllKeys(ev2, desired_key_order)
                        THEN [out |-> Raised("KeyError"), data |-> data2]
                        ELSE join_events(data2, team_rankings, i + 1, l,
                                         collect(acc, ordered_output(ev2)))

\* Mutant of transform_json_data: events that lack a field are skipped
\* instead of failing the transform.
transform_json_data_skipping(data, team_rankings) ==
    LET complete == SelectSeq(data, LAMBDA event :
                        /\ HasKey(event, "event_date")
                        /\ \A n \in 1..Len(desired_key_order) :
                              \/ desired_key_order[n] \in
                                    {"event_date", "event_time", "away_rank",
                                     "away_rank_points", "home_rank", "home_rank_points"}
                              \/ HasKey(event, desired_key_order[n]))
        dated == add_date_and_time(complete)
    IN  IF dated.out.kind = "raise"
        THEN dated
        ELSE join_events(dated.data, team_rankings, 1, UnboundLocals, <<>>)

\* transform_json_data(scoreboard_data, team_rankings): its outcome, and the
\* caller's scoreboard_data as the call leaves it.
transform_json_data(data, team_rankings) ==
    LET dated == add_date_and_time(data) IN
    IF dated.out.kind = "raise"
    THEN dated
    ELSE join_events(dated.data, team_rankings, 1, UnboundLocals, <<>>)

-----------------------------------------------------------------------------
(* str.split and int over token sequences.                                 *)

\* s.split(sep): the components of s between the occurrences of sep.
RECURSIVE split(_, _)
split(s, sep) ==
    IF \A i \in 1..Len(s) : s[i] # sep
    THEN <<s>>
    ELSE LET k == CHOOSE i \in 1..Len(s) :
                      s[i] = sep /\ \A j \in 1..(i - 1) : s[j] # sep
         IN <<SubSeq(s, 1, k - 1)>> \o split(SubSeq(s, k + 1, Len(s)), sep)

Digits == <<"0", "1", "2", "3", "4", "5", "6", "7", "8", "9">>

IsDigit(tok) == tok \in Range(Digits)

DigitValue(tok) == (CHOOSE i \in 1..Len(Digits) : Digits[i] = tok) - 1

RECURSIVE DigitsValue(_)
DigitsValue(s) ==
    IF Len(s) = 0 THEN 0
    ELSE DigitsValue(SubSeq(s, 1, Len(s) - 1)) * Len(Digits) + DigitValue(s[Len(s)])

\* int(s) raises ValueError unless s is digits with an optional sign.
IsIntLiteral(s) ==
    LET body == IF Len(s) > 0 /\ s[1] \in {"-", "+"} THEN Tail(s) ELSE s
    IN  Len(body) > 0 /\ \A i \in 1..Len(body) : IsDigit(body[i])

int(s) ==
    IF Len(s) > 0 /\ s[1] = "-" THEN 0 - DigitsValue(Tail(s))
    ELSE IF Len(s) > 0 /\ s[1] = "+" THEN DigitsValue(Tail(s))
    ELSE DigitsValue(s)

-----------------------------------------------------------------------------
(* nfl/helpers/command_line.py                                             *)

\* An exception with the message that tells the raise sites apart.
Exc(e, m) == [exc |-> e, msg |-> m]
NoError == Exc("none", "")

\* Mutant of check_command_line_arguments: the delta range check is off by
\* one (range(0, 9)).
check_command_line_arguments_off_by_one(argc, args) ==
    IF ~(argc = 3)
    THEN Exc("ValueError", "expected start date and delta")
    ELSE IF ~(Len(split(args[2], "-")) = 3)
    THEN Exc("ValueError", "date format")
    ELSE IF ~IsIntLiteral(args[3])
    THEN Exc("ValueError", "invalid literal for int()")
    ELSE IF ~(int(args[3]) \in 0..8)
    THEN Exc("ValueError", "delta range")
    ELSE NoError

\* check_command_line_arguments(argc, argv): NoError when it returns, else
\* the ValueError it raises.  Python's argv[1], argv[2] are argv[2], argv[3].
check_command_line_arguments(argc, args) ==
    IF ~(argc = 3)
    THEN Exc("ValueError", "expected start date and delta")
    ELSE IF ~(Len(split(args[2], "-")) = 3)
    THEN Exc("ValueError", "date format")
    ELSE IF ~IsIntLiteral(args[3])
    THEN Exc("ValueError", "invalid literal for int()")
    ELSE IF ~(int(args[3]) \in 0..7)
    THEN Exc("ValueError", "delta range")
    ELSE NoError

-----------------------------------------------------------------------------
(* nfl/helpers/dates.py: generate_end_date, on the calendar of the years   *)
(* the model's dates use.                                                  *)

YearNames == <<"2020", "2021">>
TwoDigit == <<"01", "02", "03", "04", "05", "06", "07", "08", "09", "10",
              "11", "12", "13", "14", "15", "16", "17", "18", "19", "20",
              "21", "22", "23", "24", "25", "26", "27", "28", "29", "30", "31">>
DaysInDecember == Len(TwoDigit)

IndexOf(seq, tok) == CHOOSE i \in 1..Len(seq) : seq[i] = tok

\* strftime(start + timedelta(days), "%Y-%m-%d") for a start date in December.
generate_end_date(start_date, delta) ==
    IF ~MatchesDateFormat(start_date) THEN Raised("ValueError")
    ELSE LET day == IndexOf(TwoDigit, start_date[5]) + int(delta)
             year == IndexOf(YearNames, start_date[1])
         IN  IF day <= DaysInDecember
             THEN Returned(<<start_date[1], "-", start_date[3], "-", TwoDigit[day]>>)
             ELSE Returned(<<YearNames[year + 1], "-", TwoDigit[1], "-",
                             TwoDigit[day - DaysInDecember]>>)

-----------------------------------------------------------------------------
(* The requests library, as core.py uses it.                               *)

\* What requests.get does: it raises a RequestException (no response), or
\* returns a response with a status and a JSON body.
Response(st, b) == [raised |-> FALSE, status |-> st, body |-> b]
ConnectionFailed == [raised |-> TRUE, status |-> 0, body |-> <<>>]
NoResponse == [raised |-> FALSE, status |-> 0, body |-> <<>>]

\* response.ok: raise_for_status() would not raise (status below 400).
ok(response) == response.status < 400

\* A GET request: the endpoint and the dates in its URL.
Request(endpoint, start_date, end_date) ==
    [endpoint |-> endpoint, start_date |-> start_date, end_date |-> end_date]

-----------------------------------------------------------------------------
(* nfl/core.py: the endpoint clients.                                      *)

\* Lines 53-58: the games of one bucket, from index n on.
RECURSIVE extract_events(_, _, _)
extract_events(games, n, fields_of_interest) ==
    IF n > Len(games) THEN <<>>
    ELSE <<SetItem(filter_dictionary(games[n][2], fields_of_interest),
                   "event_id", Str(games[n][1]))>>
         \o extract_events(games, n + 1, fields_of_interest)

\* Mutant of Truthy: days without games are not skipped.
Truthy_always(collection) == TRUE

\* `if (event_results := complete_scoreboard_data[entry])`: an empty
\* collection is falsy.
Truthy(collection) == Len(collection) > 0

\* _extract_scoreboard_fields_of_interest, from bucket index n on.
RECURSIVE extract_scoreboard_from(_, _, _)
extract_scoreboard_from(complete_scoreboard_data, n, fields_of_interest) ==
    IF n > Len(complete_scoreboard_data) THEN Returned(<<>>)
    ELSE LET event_results == complete_scoreboard_data[n][2] IN
         IF ~Truthy(event_results)
         THEN extract_scoreboard_from(complete_scoreboard_data, n + 1, fields_of_interest)
         ELSE IF ~HasKey(event_results, "data") THEN Raised("KeyError")
         ELSE LET rest == extract_scoreboard_from(complete_scoreboard_data, n + 1,
                                                  fields_of_interest)
              IN  IF rest.kind = "raise" THEN rest
                  ELSE Returned(extract_events(GetItem(event_results, "data"), 1,
                                               fields_of_interest) \o rest.value)

_extract_scoreboard_fields_of_interest(complete_scoreboard_data, fields_of_interest) ==
    extract_scoreboard_from(complete_scoreboard_data, 1, fields_of_interest)

_extract_rankings_fields_of_interest(complete_rankings_data, fields_of_interest) ==
    IF ~HasKey(complete_rankings_data, "data") THEN Raised("KeyError")
    ELSE LET teams == GetItem(complete_rankings_data, "data") IN
         Returned([n \in 1..Len(teams) |->
                      filter_dictionary(teams[n], fields_of_interest)])

\* Mutant of handle_response: raise_for_status() is not called, and the
\* fetcher returns nothing (an empty result) on a failure status.
handle_response_no_raise(response, extracted) ==
    IF response.raised THEN Raised("SystemExit")
    ELSE IF ok(response)
    THEN IF ~HasKey(response.body, "results") THEN Raised("KeyError")
         ELSE extracted
    ELSE Returned(<<>>)

\* Lines 109-125 and 138-152: what a fetcher does with the response, given
\* the extraction to apply to response["results"].
handle_response(response, extracted) ==
    IF response.raised THEN Raised("SystemExit")
    ELSE IF ok(response)
    THEN IF ~HasKey(response.body, "results") THEN Raised("KeyError")
         ELSE extracted
    ELSE RaisedStatus("SystemExit", response.status)

\* _pull_scoreboard_data, given what requests.get answers.
_pull_scoreboard_data(start_date, delta, fields_of_interest, response) ==
    IF generate_end_date(start_date, delta).kind = "raise"
    THEN generate_end_date(start_date, delta)
    ELSE handle_response(response,
             _extract_scoreboard_fields_of_interest(
                 GetItem(response.body, "results"), fields_of_interest))

\* _pull_team_rankings, given what requests.get answers.
_pull_team_rankings(fields_of_interest, response) ==
    handle_response(response,
        _extract_rankings_fields_of_interest(
            GetItem(response.body, "results"), fields_of_interest))

\* Line 110: the GET _pull_scoreboard_data issues (one, whatever the answer).
scoreboard_requests(start_date, end_date, response) ==
    <<Request("scoreboard", start_date, end_date)>>

\* Mutant of rankings_requests: the GET is repeated once when it fails.
rankings_requests_retry(response) ==
    IF response.raised \/ ~ok(response)
    THEN <<Request("rankings", <<>>, <<>>), Request("rankings", <<>>, <<>>)>>
    ELSE <<Request("rankings", <<>>, <<>>)>>

\* Line 139: the GET _pull_team_rankings issues (one, whatever the answer).
rankings_requests(response) == <<Request("rankings", <<>>, <<>>)>>

\* Lines 178-184 of pull_json_data: the exception that leaves the except
\* clauses when the try body raised exc.
pull_json_data_except(exc) ==
    IF exc = "ValueError" THEN Exc("ValueError", "pass a correct starting date")
    ELSE IF exc = "TypeError" THEN Exc("ValueError", "pass a delta between 0 and 7")
    ELSE Exc(exc, "")

\* Mutant of pull_json_data_finally: the finally clause raises nothing, so the
\* exception in flight leaves the function.
pull_json_data_finally_silent(data_is_falsy, pending) == pending

\* Lines 185-193: the finally clause raises when scoreboard_data is falsy (None
\* or empty), which replaces the exception in flight.
pull_json_data_finally(data_is_falsy, pending) ==
    IF data_is_falsy THEN Exc("ValueError", "no scoreboard data") ELSE pending

-----------------------------------------------------------------------------
(* The inputs: command lines, configurations and endpoint payloads.        *)

\* All sequences over alphabet of length at most n.
SeqsUpTo(alphabet, n) == UNION {[1..k -> alphabet] : k \in 0..n}

\* Sequences of distinct elements of S, of length at most n.
DistinctSeqs(S, n) ==
    {q \in SeqsUpTo(S, n) : \A i, j \in 1..Len(q) : i # j => q[i] # q[j]}

GoodDate == <<"2020", "-", "12", "-", "12">>
LateDate == <<"2020", "-", "12", "-", "25">>

DateArgs == SeqsUpTo({"2020", "12", "-"}, MaxDateLen) \cup {LateDate}
DeltaArgs == SeqsUpTo({"-", "0", "7", "8"}, MaxDeltaLen) \ {<<>>}

ArgvSet ==
    {<<"main.py">>}
    \cup {<<"main.py", d>> : d \in {GoodDate}}
    \cup {<<"main.py", d, k>> : d \in DateArgs, k \in DeltaArgs}
    \cup {<<"main.py", GoodDate, k, k>> : k \in {<<"7">>}}

\* The allow-list of tests/mock_config.py, and the one the join needs.
ScoreboardFields ==
    <<"event_id", "event_date", "away_team_id", "away_nick_name", "away_city",
      "home_team_id", "home_nick_name", "home_city">>
RankingFields == <<"team_id", "rank", "adjusted_points">>

\* seq without its entries equal to x.
Without(seq, x) == SelectSeq(seq, LAMBDA y : y # x)

\* Allow-lists a config.json may hold: the full one, each one-field omission,
\* one that names a field the payload lacks, and the empty one.
ScoreboardAllowLists ==
    {ScoreboardFields, <<>>, Append(ScoreboardFields, "event_status"),
     Append(ScoreboardFields, "not_in_payload")}
    \cup {Without(ScoreboardFields, f) : f \in Range(ScoreboardFields)}

TeamIds == <<"T1", "T2", "T3">>
NickNames == <<"N1", "N2", "N3">>
Cities == <<"C1", "C2", "C3">>
Ranks == <<"5", "2", "9">>
Points == <<"10", "20", "30">>
Teams == 1..Len(TeamIds)

GoodDatetime == <<"2020", "-", "12", "-", "25", " ", "18", ":", "30">>
\* Day first: what split_datetime renders, which it does not parse.
BadDatetime == <<"25", "-", "12", "-", "2020", " ", "18", ":", "30">>

\* A game as the scoreboard endpoint sends it (a: away team, h: home team).
RawEvent(id, a, h, dt) ==
    << <<"event_id", Str(id)>>, <<"event_status", Str("completed")>>,
       <<"event_date", dt>>,
       <<"home_team_id", Str(TeamIds[h])>>, <<"home_nick_name", Str(NickNames[h])>>,
       <<"home_city", Str(Cities[h])>>,
       <<"away_team_id", Str(TeamIds[a])>>, <<"away_nick_name", Str(NickNames[a])>>,
       <<"away_city", Str(Cities[a])>> >>

\* A team as the rankings endpoint sends it.
RawTeam(t) ==
    << <<"team_id", Str(TeamIds[t])>>, <<"team", Str(NickNames[t])>>,
       <<"rank", Str(Ranks[t])>>, <<"adjusted_points", Str(Points[t])>> >>

\* The games the scoreboard may list, by event id.
GameIds == <<"E1", "E2", "E3", "E4">>
GamePool ==
    << RawEvent("E1", 1, 2, GoodDatetime),
       Tail(RawEvent("E2", 3, 1, GoodDatetime)),
       RawEvent("E3", 2, 2, GoodDatetime),
       RawEvent("E4", 2, 1, BadDatetime) >>

\* The date buckets with at most ng games: the empty list of a day without
\* games, a mapping without "data", and "data" mappings of distinct event ids.
Buckets(ng) ==
    {<<>>, << <<"status", <<>> >> >>}
    \cup {<< <<"data", [n \in 1..Len(q) |-> <<GameIds[q[n]], GamePool[q[n]]>>]>> >> :
             q \in DistinctSeqs(1..ng, ng)}

DateKeys == <<"2020-12-25", "2020-12-26", "2020-12-27", "2020-12-28">>

\* The `results` mappings with at most nb date buckets.
ScoreboardResults(nb, ng) ==
    {[n \in 1..Len(bs) |-> <<DateKeys[n], bs[n]>>] : bs \in SeqsUpTo(Buckets(ng), nb)}

\* What requests.get may answer to the scoreboard request.
ScoreboardResponses(nb, ng) ==
    {ConnectionFailed, Response(404, <<>>), Response(503, <<>>), Response(200, <<>>)}
    \cup {Response(200, << <<"results", r>> >>) : r \in ScoreboardResults(nb, ng)}

\* What requests.get may answer to the rankings request.
RankingResponses ==
    {ConnectionFailed, Response(404, <<>>), Response(200, <<>>),
     Response(200, << <<"results", <<>> >> >>)}
    \cup {Response(200, << <<"results",
                             << <<"data", [n \in 1..Len(q) |-> RawTeam(q[n])]>> >> >> >>) :
             q \in {<<>>, <<1>>, <<1, 2>>, <<2, 1>>}}

-----------------------------------------------------------------------------
(* main.py: the pipeline, one action per stage.                            *)

NoFile == [written |-> FALSE, content |-> <<>>]
File(records) == [written |-> TRUE, content |-> records]

\* main ends with the exception e.
Fail(e) == pc' = "failed" /\ err' = e

\* The Logger decorator: one entry per call of a decorated stage.
Logger(func_name) == audit_log' = Append(audit_log, func_name)

\* The state main starts from, for a configuration.
InitWith(args, sb_fields, rk_fields) ==
    /\ argv = args
    /\ pc = "start"
    /\ err = NoError
    /\ http = <<>>
    /\ audit_log = <<>>
    /\ SCOREBOARD_fields = sb_fields
    /\ RANKINGS_fields = rk_fields
    /\ sb_response = NoResponse
    /\ rk_response = NoResponse
    /\ sb_result = NotCalled
    /\ rk_result = NotCalled
    /\ scoreboard_data = <<>>
    /\ team_ranking_data = <<>>
    /\ tf_result = NotCalled
    /\ outfile = NoFile

Init == \E args \in ArgvSet : InitWith(args, ScoreboardFields, RankingFields)

\* main.py line 30: check_command_line_arguments(argc, argv).
CheckArgs ==
    /\ pc = "start"
    /\ LET e == check_command_line_arguments(Len(argv), argv) IN
       IF e = NoError THEN pc' = "checked" /\ err' = err ELSE Fail(e)
    /\ UNCHANGED <<argv, http, audit_log, SCOREBOARD_fields, RANKINGS_fields,
                   sb_response, rk_response, sb_result, rk_result, scoreboard_data,
                   team_ranking_data, tf_result, outfile>>

\* pull_json_data up to the return of _pull_scoreboard_data (core.py lines
\* 173-176), and, when that call raises, through the except and finally
\* clauses.  responses: what requests.get may answer.
PullScoreboardFrom(responses) ==
    /\ pc = "checked"
    /\ Logger("pull_json_data")
    /\ \E response \in responses :
         LET start_date == argv[2]
             delta == argv[3]
             end_date == generate_end_date(start_date, delta)
             requested == end_date.kind = "return"
             result == _pull_scoreboard_data(start_date, delta, SCOREBOARD_fields,
                                             response)
         IN
         /\ http' = IF requested
                    THEN http \o scoreboard_requests(start_date, end_date.value, response)
                    ELSE http
         /\ sb_response' = IF requested THEN response ELSE sb_response
         /\ sb_result' = result
         /\ IF result.kind = "return"
            THEN /\ scoreboard_data' = result.value
                 /\ pc' = "sb_done"
                 /\ err' = err
            ELSE /\ scoreboard_data' = scoreboard_data
                 /\ Fail(pull_json_data_finally(TRUE, pull_json_data_except(result.exc)))
    /\ UNCHANGED <<argv, SCOREBOARD_fields, RANKINGS_fields, rk_response, rk_result,
                   team_ranking_data, tf_result, outfile>>

\* What the scoreboard endpoint may answer in a run of the pipeline.
MainScoreboardResponses == ScoreboardResponses(MainMaxBuckets, MaxGames)

PullScoreboard == PullScoreboardFrom(MainScoreboardResponses)

\* The rest of pull_json_data: the call of _pull_team_rankings (line 177),
\* the except and finally clauses and the return (line 195).
PullRankings ==
    /\ pc = "sb_done"
    /\ \E response \in RankingResponses :
         LET result == _pull_team_rankings(RANKINGS_fields, response)
             pending == IF result.kind = "raise"
                        THEN pull_json_data_except(result.exc) ELSE NoError
             leaving == pull_json_data_finally(~Truthy(scoreboard_data), pending)
         IN
         /\ http' = http \o rankings_requests(response)
         /\ rk_response' = response
         /\ rk_result' = result
         /\ IF leaving = NoError
            THEN /\ team_ranking_data' = result.value
                 /\ pc' = "pulled"
                 /\ err' = err
            ELSE /\ team_ranking_data' = team_ranking_data
                 /\ Fail(leaving)
    /\ UNCHANGED <<argv, audit_log, SCOREBOARD_fields, RANKINGS_fields, sb_response,
                   sb_result, scoreboard_data, tf_result, outfile>>

\* main.py line 35: transform_json_data(scoreboard_data, team_ranking_data).
Transform ==
    /\ pc = "pulled"
    /\ Logger("transform_json_data")
    /\ LET t == transform_json_data(scoreboard_data, team_ranking_data) IN
       /\ tf_result' = t.out
       /\ scoreboard_data' = t.data
       /\ IF t.out.kind = "return"
          THEN pc' = "transformed" /\ err' = err
          ELSE Fail(Exc(t.out.exc, ""))
    /\ UNCHANGED <<argv, http, SCOREBOARD_fields, RANKINGS_fields, sb_response,
                   rk_response, sb_result, rk_result, team_ranking_data, outfile>>

\* Mutant of LoadOut: the file is written with whatever transform left, also
\* when the transform stage failed.
LoadOut_unconditional ==
    /\ pc \in {"transformed", "failed"}
    /\ tf_result.kind # "not_called"
    /\ ~outfile.written
    /\ Logger("load_out_json_data")
    /\ outfile' = File(tf_result.value)
    /\ pc' = "done"
    /\ UNCHANGED <<argv, err, http, SCOREBOARD_fields, RANKINGS_fields, sb_response,
                   rk_response, sb_result, rk_result, scoreboard_data,
                   team_ranking_data, tf_result>>

\* main.py line 36: load_out_json_data(transformed_data).
LoadOut ==
    /\ pc = "transformed"
    /\ Logger("load_out_json_data")
    /\ outfile' = File(tf_result.value)
    /\ pc' = "done"
    /\ UNCHANGED <<argv, err, http, SCOREBOARD_fields, RANKINGS_fields, sb_response,
                   rk_response, sb_result, rk_result, scoreboard_data,
                   team_ranking_data, tf_result>>

Next == CheckArgs \/ PullScoreboard \/ PullRankings \/ Transform \/ LoadOut

Spec == Init /\ [][Next]_vars

-----------------------------------------------------------------------------
(* The scoreboard fetcher on its own: every allow-list, richer payloads.   *)

InitScoreboard ==
    \E args \in {<<"main.py", GoodDate, <<"7">> >>, <<"main.py", LateDate, <<"7">> >>},
       sb_fields \in ScoreboardAllowLists :
        InitWith(args, sb_fields, RankingFields)

\* What the scoreboard endpoint may answer to the fetcher on its own.
AllScoreboardResponses == ScoreboardResponses(MaxBuckets, MaxGames)

FetchScoreboard == PullScoreboardFrom(AllScoreboardResponses)

NextScoreboard == CheckArgs \/ FetchScoreboard

SpecScoreboard == InitScoreboard /\ [][NextScoreboard]_vars

-----------------------------------------------------------------------------
(* transform_json_data on lists of event and ranking dicts of every shape  *)
(* a configuration can produce, and handed to it by a caller directly.     *)

\* The event dict _extract_scoreboard_fields_of_interest builds for a game.
Event(id, a, h, dt, fields_of_interest) ==
    extract_events(<< <<id, RawEvent(id, a, h, dt)>> >>, 1, fields_of_interest)[1]

\* dict without key k.
DropKey(d, k) == SelectSeq(d, LAMBDA kv : kv[1] # k)

EventSet ==
    {Event(GameIds[a], a, h, GoodDatetime, ScoreboardFields) : a \in Teams, h \in Teams}
    \cup {Event("E4", 1, 2, BadDatetime, ScoreboardFields),
          Event("E4", 1, 2, GoodDatetime, Append(ScoreboardFields, "event_status"))}
    \cup {DropKey(Event("E4", 1, 2, GoodDatetime, ScoreboardFields), k) :
             k \in Range(ScoreboardFields)}

EventSeqs == SeqsUpTo(EventSet, MaxEvents) \ {<<>>}

RankingList(q, fields_of_interest) ==
    [n \in 1..Len(q) |-> filter_dictionary(RawTeam(q[n]), fields_of_interest)]

RankingSeqs ==
    {RankingList(q, RankingFields) : q \in DistinctSeqs(Teams, MaxRankings)}
    \cup {RankingList(<<1, 2>>, Without(RankingFields, f)) : f \in Range(RankingFields)}

InitTransform ==
    \E events \in EventSeqs, rankings \in RankingSeqs :
        /\ argv = <<"main.py", GoodDate, <<"7">> >>
        /\ pc = "pulled"
        /\ err = NoError
        /\ http = <<>>
        /\ audit_log = <<>>
        /\ SCOREBOARD_fields = ScoreboardFields
        /\ RANKINGS_fields = RankingFields
        /\ sb_response = NoResponse
        /\ rk_response = NoResponse
        /\ sb_result = Returned(events)
        /\ rk_result = Returned(rankings)
        /\ scoreboard_data = events
        /\ team_ranking_data = rankings
        /\ tf_result = NotCalled
        /\ outfile = NoFile

NextTransform == Transform \/ LoadOut

SpecTransform == InitTransform /\ [][NextTransform]_vars

-----------------------------------------------------------------------------
(* transform_json_data on longer lists of events, where a rank variable can *)
(* outlive several iterations of the loop over events.                      *)

\* Away and home team of the games: two different teams, one team twice, and
\* team 3, which the ranking lists of two records leave out.
JoinPairings == {<<1, 2>>, <<2, 1>>, <<1, 1>>, <<1, 3>>, <<3, 1>>, <<3, 3>>}

\* The games of JoinPairings, an event with a malformed date and one that
\* lacks a field.
JoinEventSet ==
    {Event(GameIds[g[1]], g[1], g[2], GoodDatetime, ScoreboardFields) : g \in JoinPairings}
    \cup {Event("E4", 3, 1, BadDatetime, ScoreboardFields),
          DropKey(Event("E4", 3, 1, GoodDatetime, ScoreboardFields), "home_city")}

JoinEventSeqs == SeqsUpTo(JoinEventSet, MaxJoinEvents) \ {<<>>}

JoinRankingSeqs ==
    {RankingList(q, RankingFields) : q \in DistinctSeqs(Teams, MaxRankings)}
    \cup {RankingList(<<1, 2>>, Without(RankingFields, f)) : f \in {"team_id", "rank"}}

InitJoin ==
    \E events \in JoinEventSeqs, rankings \in JoinRankingSeqs :
        /\ argv = <<"main.py", GoodDate, <<"7">> >>
        /\ pc = "pulled"
        /\ err = NoError
        /\ http = <<>>
        /\ audit_log = <<>>
        /\ SCOREBOARD_fields = ScoreboardFields
        /\ RANKINGS_fields = RankingFields
        /\ sb_response = NoResponse
        /\ rk_response = NoResponse
        /\ sb_result = Returned(events)
        /\ rk_result = Returned(rankings)
        /\ scoreboard_data = events
        /\ team_ranking_data = rankings
        /\ tf_result = NotCalled
        /\ outfile = NoFile

NextJoin == Transform \/ LoadOut

SpecJoin == InitJoin /\ [][NextJoin]_vars

-----------------------------------------------------------------------------
(* The claims.  The input of transform_json_data is sb_result.value (the    *)
(* list as the caller handed it over), its outcome is tf_result.            *)

TransformReturned == tf_result.kind = "return"
TransformInput == sb_result.value

\* The ranking records whose team_id is id.
MatchesOf(id) ==
    {j \in 1..Len(team_ranking_data) :
        /\ HasKey(team_ranking_data[j], "team_id")
        /\ GetItem(team_ranking_data[j], "team_id") = id}

UniqueTeamIds ==
    \A j, k \in 1..Len(team_ranking_data) :
        (/\ j # k
         /\ HasKey(team_ranking_data[j], "team_id")
         /\ HasKey(team_ranking_data[k], "team_id"))
        => GetItem(team_ranking_data[j], "team_id") # GetItem(team_ranking_data[k], "team_id")

\* The output record out carries rank and points of ranking record j on side.
CarriesRank(out, side, j) ==
    /\ GetItem(out, side \o "_rank") = GetItem(team_ranking_data[j], "rank")
    /\ GetItem(out, side \o "_rank_points") = GetItem(team_ranking_data[j], "adjusted_points")

\* Event i of the input names two teams that both have a ranking record.
BothRanked(i) ==
    /\ HasKey(TransformInput[i], "away_team_id")
    /\ HasKey(TransformInput[i], "home_team_id")
    /\ MatchesOf(GetItem(TransformInput[i], "away_team_id")) # {}
    /\ MatchesOf(GetItem(TransformInput[i], "home_team_id")) # {}

SameTeamTwice(i) ==
    GetItem(TransformInput[i], "away_team_id") = GetItem(TransformInput[i], "home_team_id")

JoinedRight(i) ==
    /\ \A j \in MatchesOf(GetItem(TransformInput[i], "away_team_id")) :
          CarriesRank(tf_result.value[i], "away", j)
    /\ \A j \in MatchesOf(GetItem(TransformInput[i], "home_team_id")) :
          CarriesRank(tf_result.value[i], "home", j)

\* C1: every record transform_json_data produces for an event whose away and
\* home team ids both occur in a ranking sequence with unique team ids
\* (distinct or not) carries, on each side, the rank and adjusted points of
\* the ranking record with that side's team id.
C1_JoinByTeamId ==
    (TransformReturned /\ UniqueTeamIds) =>
        \A i \in 1..Len(tf_result.value) : BothRanked(i) => JoinedRight(i)

CanonicalKeys ==
    <<"event_id", "event_date", "event_time", "away_team_id", "away_nick_name",
      "away_city", "away_rank", "away_rank_points", "home_team_id",
      "home_nick_name", "home_city", "home_rank", "home_rank_points">>

\* C2: every record transform_json_data returns has exactly the 13 canonical
\* keys, in the canonical order, whatever extra keys the input event had.
C2_CanonicalKeys ==
    TransformReturned =>
        \A i \in 1..Len(tf_result.value) : DictKeys(tf_result.value[i]) = CanonicalKeys

\* C2 witness: the transform returned records for an input in which an event
\* carried a key outside the canonical ones.
C2_Witness ==
    /\ TransformReturned
    /\ \E i \in 1..Len(TransformInput) : HasKey(TransformInput[i], "event_status")

UpstreamFields ==
    {"event_id", "away_team_id", "away_nick_name", "away_city",
     "home_team_id", "home_nick_name", "home_city"}

\* C3: when transform_json_data returns, the output is as long as the input
\* and its i-th record carries the event id, team ids, nicknames and cities
\* of the i-th input event.
C3_OrderPreserved ==
    TransformReturned =>
        /\ Len(tf_result.value) = Len(TransformInput)
        /\ \A i \in 1..Len(TransformInput) : \A k \in UpstreamFields :
              /\ HasKey(tf_result.value[i], k)
              /\ GetItem(tf_result.value[i], k) = GetItem(TransformInput[i], k)

\* C3 witness: the transform returned for two events with different ids.
C3_Witness ==
    /\ TransformReturned
    /\ Len(TransformInput) >= 2
    /\ GetItem(TransformInput[1], "event_id") # GetItem(TransformInput[2], "event_id")

-----------------------------------------------------------------------------
(* Claims about the scoreboard fetcher (SpecScoreboard).                   *)

ScoreboardReturned == sb_result.kind = "return"

\* The keys of the records _pull_scoreboard_data returned.
ReturnedKeys ==
    UNION {Range(DictKeys(sb_result.value[i])) : i \in 1..Len(sb_result.value)}

SuccessfulScoreboardResponse ==
    /\ sb_result.kind # "not_called"
    /\ ~sb_response.raised
    /\ sb_response.status = 200
    /\ HasKey(sb_response.body, "results")
    /\ \A n \in 1..Len(GetItem(sb_response.body, "results")) :
          LET bucket == GetItem(sb_response.body, "results")[n][2] IN
          Len(bucket) > 0 => HasKey(bucket, "data")

\* The game keys of the buckets from index n on, bucket by bucket, game by
\* game; an empty bucket has none.
RECURSIVE GameKeysFrom(_, _)
GameKeysFrom(results, n) ==
    IF n > Len(results) THEN <<>>
    ELSE LET bucket == results[n][2]
             games == IF Len(bucket) = 0 THEN <<>> ELSE GetItem(bucket, "data")
         IN  [g \in 1..Len(games) |-> Str(games[g][1])] \o GameKeysFrom(results, n + 1)

\* C5: for a successful scoreboard response the fetch returns one record per
\* game of the non-empty buckets, in bucket order then game order, with
\* event_id the game's key; empty buckets contribute nothing.
C5_OneRecordPerGame ==
    SuccessfulScoreboardResponse =>
        LET expected == GameKeysFrom(GetItem(sb_response.body, "results"), 1) IN
        /\ ScoreboardReturned
        /\ Len(sb_result.value) = Len(expected)
        /\ \A i \in 1..Len(expected) :
              /\ HasKey(sb_result.value[i], "event_id")
              /\ GetItem(sb_result.value[i], "event_id") = expected[i]

\* C5 witness: a payload with an empty bucket and a bucket of two games gave
\* two records.
C5_Witness ==
    /\ SuccessfulScoreboardResponse
    /\ ScoreboardReturned
    /\ Len(sb_result.value) = 2
    /\ \E n \in 1..Len(GetItem(sb_response.body, "results")) :
          Len(GetItem(sb_response.body, "results")[n][2]) = 0

-----------------------------------------------------------------------------
(* Claims about the pipeline (Spec).                                       *)

Argc == Len(argv)

\* The number of hyphen-separated components of the start date argument.
DateComponents == Cardinality({i \in 1..Len(argv[2]) : argv[2][i] = "-"}) + 1

\* The command line is one of those the claim lists: argc is not 3, or the
\* date has other than 3 components, or the delta is an integer outside 0..7.
InvalidCommandLine ==
    \/ Argc # 3
    \/ Argc = 3 /\ DateComponents # 3
    \/ Argc = 3 /\ IsIntLiteral(argv[3]) /\ (int(argv[3]) < 0 \/ int(argv[3]) > 7)

\* C6: on an invalid command line check_command_line_arguments raises a
\* ValueError and the run issues no HTTP request.
C6_InvalidInputNoRequest ==
    InvalidCommandLine =>
        /\ http = <<>>
        /\ pc \in {"start", "failed"}
        /\ pc = "failed" =>
              /\ err.exc = "ValueError"
              /\ audit_log = <<>>
              /\ sb_result.kind = "not_called"

\* C6 witness: a run ended on a well-formed command line whose delta is 8.
C6_Witness ==
    /\ pc = "failed"
    /\ Argc = 3
    /\ argv[2] = GoodDate
    /\ argv[3] = <<"8">>

\* C7: the output file is written only after transform_json_data returned
\* for the whole event sequence; a run in which validation, the pull or the
\* transform fails writes no file.
C7_OutputOnlyAfterTransform ==
    /\ outfile.written =>
          /\ tf_result.kind = "return"
          /\ outfile.content = tf_result.value
          /\ Len(tf_result.value) = Len(sb_result.value)
          /\ err = NoError
    /\ (err # NoError \/ pc = "failed") => outfile = NoFile

\* C7 witness: the transform stage failed, and the run ended without a file.
C7_Witness ==
    /\ pc = "failed"
    /\ tf_result.kind = "raise"
    /\ ~outfile.written

\* The GET of a fetcher came back with a failure status.
FailureStatus(response) == ~response.raised /\ response.status >= 400

\* C9: when the GET of _pull_scoreboard_data or of _pull_team_rankings
\* comes back with a non-success status, the fetcher ends in SystemExit
\* carrying that status and returns no list.
C9_FailureStatusIsFatal ==
    /\ FailureStatus(sb_response) =>
          sb_result = RaisedStatus("SystemExit", sb_response.status)
    /\ FailureStatus(rk_response) =>
          rk_result = RaisedStatus("SystemExit", rk_response.status)

\* C9 witness: the rankings GET came back 404 after a scoreboard fetch that
\* returned.
C9_Witness ==
    /\ sb_result.kind = "return"
    /\ rk_response.status = 404
    /\ rk_result.kind = "raise"

Endpoints == [n \in 1..Len(http) |-> http[n].endpoint]

\* C10: a run of pull_json_data issues at most one GET per endpoint, the
\* scoreboard GET before the rankings GET, and the rankings GET only after
\* the scoreboard fetch returned.
C10_OneGetEachInOrder ==
    /\ Endpoints \in {<<>>, <<"scoreboard">>, <<"scoreboard", "rankings">>}
    /\ Len(http) = 2 => sb_result.kind = "return"
    /\ sb_result.kind = "raise" => Len(http) <= 1

\* C10 witness: both GETs were issued, and the rankings GET failed.
C10_Witness ==
    /\ Len(http) = 2
    /\ rk_result.kind = "raise"

-----------------------------------------------------------------------------
(* C8, on transform_json_data (SpecTransform).                             *)

RequiredFields == UpstreamFields \cup {"event_date"}

\* Some input event lacks a field the transform needs.
SomeEventLacksField ==
    \E i \in 1..Len(TransformInput) : \E k \in RequiredFields :
        ~HasKey(TransformInput[i], k)

TransformCalled == tf_result.kind # "not_called"

\* C8 as stated: whenever some input event lacks event_date or an upstream
\* field, transform_json_data raises KeyError and returns no records, for
\* every ranking sequence.
C8_MissingFieldIsKeyError ==
    (TransformCalled /\ SomeEventLacksField) =>
        tf_result = Raised("KeyError")

MalformedDate(i) ==
    /\ HasKey(TransformInput[i], "event_date")
    /\ ~MatchesDatetimeFormat(GetItem(TransformInput[i], "event_date"))

\* Event i names its teams, and they are the same team or not both ranked.
NotBothBound(i) ==
    /\ HasKey(TransformInput[i], "away_team_id")
    /\ HasKey(TransformInput[i], "home_team_id")
    /\ (SameTeamTwice(i) \/ ~BothRanked(i))

\* C8 amended: whenever some input event lacks event_date or an upstream
\* field, transform_json_data raises and returns no records (and no file is
\* written); the error is KeyError unless a failure the code reaches first
\* takes its place: ValueError, only when some event_date is malformed, or
\* the unset-variable error, only when some event names the same team twice
\* or a team without a ranking record.
C8_MissingFieldFails ==
    (TransformCalled /\ SomeEventLacksField) =>
        /\ tf_result.kind = "raise"
        /\ tf_result.value = <<>>
        /\ ~outfile.written
        /\ tf_result.exc \in {"KeyError", "ValueError", "UnboundLocalError"}
        /\ tf_result.exc = "ValueError" =>
              \E i \in 1..Len(TransformInput) : MalformedDate(i)
        /\ tf_result.exc = "UnboundLocalError" =>
              \E i \in 1..Len(TransformInput) : NotBothBound(i)

\* C8 witness: an event without home_city, after an event that transformed,
\* made the transform raise KeyError.
C8_Witness ==
    /\ tf_result = Raised("KeyError")
    /\ Len(TransformInput) = 2
    /\ ~HasKey(TransformInput[2], "home_city")
    /\ HasKey(scoreboard_data[1], "home_rank")

-----------------------------------------------------------------------------
(* C11, on transform_json_data over lists of up to MaxJoinEvents events     *)
(* (SpecJoin).                                                              *)

Sides == {"away", "home"}

NamesTeam(i, side) == HasKey(TransformInput[i], side \o "_team_id")
SideId(i, side) == GetItem(TransformInput[i], side \o "_team_id")

\* Event i names a team on side, and some / no ranking record has its id.
Matched(i, side) == NamesTeam(i, side) /\ MatchesOf(SideId(i, side)) # {}
Unmatched(i, side) == NamesTeam(i, side) /\ MatchesOf(SideId(i, side)) = {}

\* The greatest element of a non-empty set of numbers.
Latest(S) == CHOOSE x \in S : \A y \in S : y <= x

\* The events before event i whose team on side has a ranking record.
EarlierMatched(i, side) == {j \in 1..(i - 1) : Matched(j, side)}

\* The scan of event i assigns the rank variables of side: the side's id has
\* a ranking record, and for the home side the away id is another one (the
\* home test is the elif of the away test).
Assigns(i, side) ==
    /\ Matched(i, side)
    /\ side = "home" => (NamesTeam(i, "away") /\ ~SameTeamTwice(i))

EarlierAssigning(i, side) == {j \in 1..(i - 1) : Assigns(j, side)}

\* Output record i carries on side the rank and points of the ranking record
\* of event j's team on that side.
CarriesRankOf(i, side, j) ==
    \A m \in MatchesOf(SideId(j, side)) : CarriesRank(tf_result.value[i], side, m)

\* C11 as stated: when no ranking record matches the away or home team id of
\* an event, that side of its output record carries the rank and points that
\* the most recent earlier event with a match for that side assigned; when no
\* earlier event had a match for that side, transform_json_data raises the
\* unset-variable error and returns no record.
C11_StaleRankOrUnsetError ==
    TransformCalled =>
        \A i \in 1..Len(TransformInput) : \A side \in Sides :
            Unmatched(i, side) =>
                IF EarlierMatched(i, side) = {}
                THEN /\ tf_result = Raised("UnboundLocalError")
                     /\ tf_result.value = <<>>
                ELSE TransformReturned =>
                        CarriesRankOf(i, side, Latest(EarlierMatched(i, side)))

SomeRankingLacksField ==
    \E j \in 1..Len(team_ranking_data) : \E k \in Range(RankingFields) :
        ~HasKey(team_ranking_data[j], k)

\* Some event names a team on a side that neither it nor an earlier event
\* assigns.
SomeSideNeverAssigned ==
    \E i \in 1..Len(TransformInput) : \E side \in Sides :
        /\ NamesTeam(i, side)
        /\ ~Assigns(i, side)
        /\ EarlierAssigning(i, side) = {}

\* C11 amended: when no ranking record matches the away or home team id of an
\* event, (a) if transform_json_data returns, that side of the event's output
\* record repeats the previous record's values, which are those of the most
\* recent earlier event that assigned the side (its id matched a ranking
\* record and, for the home side, differs from that event's away id); (b) if
\* no earlier event assigned the side, transform_json_data raises and returns
\* no record (and no file is written): the unset-variable error, unless a
\* failure the code reaches first takes its place, which is ValueError only
\* when some event_date is malformed and KeyError only when some event or
\* ranking record lacks a field; (c) the unset-variable error is raised only
\* when some event names a team on a side that neither it nor an earlier
\* event assigns.
C11_StaleRankOrFailure ==
    TransformCalled =>
        /\ \A i \in 1..Len(TransformInput) : \A side \in Sides :
              Unmatched(i, side) =>
                  IF EarlierAssigning(i, side) = {}
                  THEN /\ tf_result.kind = "raise"
                       /\ tf_result.value = <<>>
                       /\ ~outfile.written
                       /\ tf_result.exc \in {"UnboundLocalError", "ValueError", "KeyError"}
                       /\ tf_result.exc = "ValueError" =>
                             \E k \in 1..Len(TransformInput) : MalformedDate(k)
                       /\ tf_result.exc = "KeyError" =>
                             (SomeEventLacksField \/ SomeRankingLacksField)
                  ELSE TransformReturned =>
                          /\ CarriesRankOf(i, side, Latest(EarlierAssigning(i, side)))
                          /\ \A f \in {"_rank", "_rank_points"} :
                                GetItem(tf_result.value[i], side \o f)
                                    = GetItem(tf_result.value[i - 1], side \o f)
        /\ tf_result = Raised("UnboundLocalError") => SomeSideNeverAssigned

\* C11 witness: the third event's home team has no ranking record, the second
\* names one ranked team twice, and the third record carries the home rank
\* the first event assigned.
C11_Witness ==
    /\ TransformReturned
    /\ Len(TransformInput) = 3
    /\ Unmatched(3, "home")
    /\ SameTeamTwice(2)
    /\ Matched(2, "home")
    /\ SideId(1, "home") # SideId(2, "home")
    /\ CarriesRankOf(3, "home", 1)

-----------------------------------------------------------------------------
(* C12, on pull_json_data in runs of the pipeline (Spec).                   *)

\* The ValueError of the finally clause.
NoScoreboardDataError == pull_json_data_finally(TRUE, NoError)

\* pull_json_data was called and has returned or raised.
PullEnded == sb_result.kind # "not_called" /\ pc # "sb_done"

\* pull_json_data returned its pair to main.
PullReturned == pc \in {"pulled", "transformed", "done"} \/ TransformCalled

\* _pull_scoreboard_data raised, or returned an empty list.
ScoreboardFetchFailed ==
    \/ sb_result.kind = "raise"
    \/ sb_result.kind = "return" /\ ~Truthy(sb_result.value)

\* C12: pull_json_data returns its (scoreboard, rankings) pair only when the
\* scoreboard data is non-empty; whenever the scoreboard fetch returns an
\* empty list or raises any exception (the SystemExit of an HTTP failure
\* included), pull_json_data ends with the "no scoreboard data" ValueError of
\* its finally clause in place of the original exception, and nothing is
\* handed to the transform.
C12_NoDataErrorReplaces ==
    /\ PullReturned =>
          /\ sb_result.kind = "return"
          /\ Truthy(sb_result.value)
          /\ rk_result.kind = "return"
    /\ (PullEnded /\ ScoreboardFetchFailed) =>
          /\ pc = "failed"
          /\ err = NoScoreboardDataError
          /\ err.exc = "ValueError"
          /\ team_ranking_data = <<>>
          /\ ~TransformCalled
          /\ ~outfile.written

\* C12 witness: the scoreboard endpoint answered 404, _pull_scoreboard_data
\* raised SystemExit, and pull_json_data ended with the ValueError of its
\* finally clause.
C12_Witness ==
    /\ sb_result.kind = "raise"
    /\ sb_result.exc = "SystemExit"
    /\ sb_response.status = 404
    /\ pc = "failed"
    /\ err = NoScoreboardDataError

====
